---- MODULE Spec2Model ----
(***************************************************************************)
(* Request dispatch / reconciliation layer of wp-calypso:                  *)
(*   - the WPCOM HTTP data-layer utilities (dispatchRequest,               *)
(*     isHttpIngress, isHttpEgress, processHttpRequest), whose test suite  *)
(*     is src/unnamed/part_000:207-417;                                    *)
(*   - the Site model (src/unnamed/part_000:33-205).                       *)
(* Each component has its own specification over the shared variables.     *)
(***************************************************************************)
EXTENDS Integers, Sequences, FiniteSets, TLC

VARIABLES
    invoked,        \* dispatcher: the (store, action, next) of each invocation
    calls,          \* dispatcher: handler calls made, tagged by invocation
    routed,         \* router: messages received by the stage, in order
    routerCalls,    \* router: calls made by the stage and by the handlers
    site,           \* Site: the own properties of the Site object
    listeners,      \* Site: number of 'change' listeners subscribed
    setCalls,       \* Site: the last set call (argument, states, log, result), if any
    requests,       \* settings: the remote requests in flight
    issued,         \* settings: number of remote requests issued so far
    clock,          \* settings: the time new Date().getTime() reads
    lastOp,         \* settings: the last operation (inputs, state before, effects), if any
    state,          \* billing history: this.state of the BillingHistoryTable
    receiptRequests,\* billing history: billingHistoryEmailReceipt calls in flight
    emailed,        \* billing history: number of emailReceipt calls made
    lastReceiptOp   \* billing history: the last operation, if any

dispatchVars == <<invoked, calls>>
routerVars == <<routed, routerCalls>>
siteVars == <<site, listeners, setCalls>>
settingsVars == <<requests, issued, clock, lastOp>>
billingVars == <<state, receiptRequests, emailed, lastReceiptOp>>

----------------------------------------------------------------------------
(* Bounds *)
MaxDispatches == 2
MaxMessages == 2
MaxListeners == 2
MaxRequests == 2
MaxTime == 1
MaxReceipts == 3        \* receipts listed in the table
MaxEmails == 3          \* emailReceipt calls in a behaviour

----------------------------------------------------------------------------
(* Message envelopes: a type and an optional meta.dataLayer record holding *)
(* any of data, error, progress.                                           *)

WPCOM_HTTP_REQUEST == "WPCOM_HTTP_REQUEST"

Fields == {"data", "error", "progress"}

FieldValues(f) ==
    CASE f = "data" -> {[count |-> 5]}
      [] f = "error" -> {[message |-> "oh no!"]}
      [] f = "progress" -> {[loaded |-> 45, total |-> 80]}

AllFieldValues == UNION {FieldValues(f) : f \in Fields}

\* every dataLayer record: one per subset of the fields, the empty one included
DataLayers ==
    UNION {{d \in [S -> AllFieldValues] : \A f \in S : d[f] \in FieldValues(f)}
           : S \in SUBSET Fields}

Envelopes(types) ==
    {[type |-> t] : t \in types}
    \cup {[type |-> t, meta |-> [dataLayer |-> d]] : t \in types, d \in DataLayers}

HasMeta(action) == "meta" \in DOMAIN action

\* lodash get( action, 'meta.dataLayer.<field>', null )
Null == "null"

getField(action, f) ==
    IF HasMeta(action) /\ f \in DOMAIN action.meta.dataLayer
    THEN action.meta.dataLayer[f]
    ELSE Null

getData(action) == getField(action, "data")
getError(action) == getField(action, "error")
getProgress(action) == getField(action, "progress")

HasField(action, f) == HasMeta(action) /\ f \in DOMAIN action.meta.dataLayer

----------------------------------------------------------------------------
(* Request Dispatcher: dispatchRequest(initiate, onSuccess, onFailure,     *)
(* onProgress) builds (store, action, next) => ...; the operator yields    *)
(* the handler calls one invocation makes.                                 *)

Call(handler, args) == [handler |-> handler, args |-> args]

\* faulty variant: the success branch is tried before the failure branch
dispatchRequest_DataFirst(store, action, next) ==
    IF ~HasMeta(action)
    THEN <<Call("initiate", <<store, action, next>>)>>
    ELSE IF HasField(action, "data")
    THEN <<Call("onSuccess", <<store, action, next, getData(action)>>)>>
    ELSE IF HasField(action, "error")
    THEN <<Call("onFailure", <<store, action, next, getError(action)>>)>>
    ELSE IF HasField(action, "progress")
    THEN <<Call("onProgress", <<store, action, next, getProgress(action)>>)>>
    ELSE <<>>

\* faulty variant: onSuccess is handed the whole dataLayer record instead of its data
dispatchRequest_RawPayload(store, action, next) ==
    IF ~HasMeta(action)
    THEN <<Call("initiate", <<store, action, next>>)>>
    ELSE IF HasField(action, "error")
    THEN <<Call("onFailure", <<store, action, next, getError(action)>>)>>
    ELSE IF HasField(action, "progress")
    THEN <<Call("onProgress", <<store, action, next, getProgress(action)>>)>>
    ELSE IF HasField(action, "data")
    THEN <<Call("onSuccess", <<store, action, next, action.meta.dataLayer>>)>>
    ELSE <<>>

\* faulty variant: a progress report also completes the request
dispatchRequest_ProgressCompletes(store, action, next) ==
    IF ~HasMeta(action)
    THEN <<Call("initiate", <<store, action, next>>)>>
    ELSE IF HasField(action, "error")
    THEN <<Call("onFailure", <<store, action, next, getError(action)>>)>>
    ELSE IF HasField(action, "progress")
    THEN <<Call("onProgress", <<store, action, next, getProgress(action)>>),
           Call("onSuccess", <<store, action, next, getData(action)>>)>>
    ELSE IF HasField(action, "data")
    THEN <<Call("onSuccess", <<store, action, next, getData(action)>>)>>
    ELSE <<>>

\* faulty variant: the initiator is handed a fourth argument like the other handlers
dispatchRequest_InitiateExtraArg(store, action, next) ==
    IF ~HasMeta(action)
    THEN <<Call("initiate", <<store, action, next, getData(action)>>)>>
    ELSE IF HasField(action, "error")
    THEN <<Call("onFailure", <<store, action, next, getError(action)>>)>>
    ELSE IF HasField(action, "progress")
    THEN <<Call("onProgress", <<store, action, next, getProgress(action)>>)>>
    ELSE IF HasField(action, "data")
    THEN <<Call("onSuccess", <<store, action, next, getData(action)>>)>>
    ELSE <<>>

dispatchRequest(store, action, next) ==
    IF ~HasMeta(action)
    THEN <<Call("initiate", <<store, action, next>>)>>
    ELSE IF HasField(action, "error")
    THEN <<Call("onFailure", <<store, action, next, getError(action)>>)>>
    ELSE IF HasField(action, "progress")
    THEN <<Call("onProgress", <<store, action, next, getProgress(action)>>)>>
    ELSE IF HasField(action, "data")
    THEN <<Call("onSuccess", <<store, action, next, getData(action)>>)>>
    ELSE <<>>

Stores == {"store1", "store2"}
Nexts == {"next1"}
DispatchTypes == {"REFILL", "UPLOAD_PROGRESS"}

Tag(cs, i) == [j \in 1..Len(cs) |-> [inv |-> i, handler |-> cs[j].handler, args |-> cs[j].args]]

Dispatch(store, action, next) ==
    /\ Len(invoked) < MaxDispatches
    /\ invoked' = Append(invoked, <<store, action, next>>)
    /\ calls' = calls \o Tag(dispatchRequest(store, action, next), Len(invoked) + 1)
    /\ UNCHANGED <<routerVars, siteVars, settingsVars, billingVars>>

DispatchInit ==
    /\ invoked = <<>>
    /\ calls = <<>>

----------------------------------------------------------------------------
(* Action Classifier *)

isHttpIngress(action) == action.type = WPCOM_HTTP_REQUEST

isHttpEgress(action) == HasField(action, "data") \/ HasField(action, "error")

(* Ingress/Egress Router: processHttpRequest(handleIngress, handleEgress)  *)
(* (store)(next)(action); the operator yields the calls the stage makes.   *)

\* faulty variant: an egress message is handled and then forwarded as well
processHttpRequest_EgressForwarded(action) ==
    IF isHttpIngress(action)
    THEN <<[callee |-> "handleIngress", arg |-> action, by |-> "stage"]>>
    ELSE IF isHttpEgress(action)
    THEN <<[callee |-> "handleEgress", arg |-> action, by |-> "stage"],
           [callee |-> "next", arg |-> action, by |-> "stage"]>>
    ELSE <<[callee |-> "next", arg |-> action, by |-> "stage"]>>

\* faulty variant: the egress test comes before the ingress test
processHttpRequest_EgressFirst(action) ==
    IF isHttpEgress(action)
    THEN <<[callee |-> "handleEgress", arg |-> action, by |-> "stage"]>>
    ELSE IF isHttpIngress(action)
    THEN <<[callee |-> "handleIngress", arg |-> action, by |-> "stage"]>>
    ELSE <<[callee |-> "next", arg |-> action, by |-> "stage"]>>

processHttpRequest(action) ==
    IF isHttpIngress(action)
    THEN <<[callee |-> "handleIngress", arg |-> action, by |-> "stage"]>>
    ELSE IF isHttpEgress(action)
    THEN <<[callee |-> "handleEgress", arg |-> action, by |-> "stage"]>>
    ELSE <<[callee |-> "next", arg |-> action, by |-> "stage"]>>

\* a handler is the caller's: it swallows the message or forwards it itself
HandlerForward(action, forwards) ==
    IF forwards /\ (isHttpIngress(action) \/ isHttpEgress(action))
    THEN <<[callee |-> "next", arg |-> action, by |-> "handler"]>>
    ELSE <<>>

RouterTypes == {WPCOM_HTTP_REQUEST, "requestRooster", "unrelated"}

TagR(cs, i) == [j \in 1..Len(cs) |-> [inv |-> i, callee |-> cs[j].callee, arg |-> cs[j].arg, by |-> cs[j].by]]

Route(action, forwards) ==
    /\ Len(routed) < MaxMessages
    /\ routed' = Append(routed, action)
    /\ routerCalls' = routerCalls
          \o TagR(processHttpRequest(action) \o HandlerForward(action, forwards), Len(routed) + 1)
    /\ UNCHANGED <<dispatchVars, siteVars, settingsVars, billingVars>>

RouterInit ==
    /\ routed = <<>>
    /\ routerCalls = <<>>

----------------------------------------------------------------------------
(* Site: values.  A JavaScript value is a primitive, undefined, or an      *)
(* object, which has an identity (ref) besides its fields; the fields of   *)
(* the objects modelled hold primitives.                                    *)

NoFields == <<>>

Str(x) == [t |-> "string", s |-> x, n |-> 0, ref |-> 0, fields |-> NoFields]
Num(x) == [t |-> "number", s |-> "", n |-> x, ref |-> 0, fields |-> NoFields]
Bool(b) == [t |-> "boolean", s |-> IF b THEN "true" ELSE "false", n |-> 0, ref |-> 0,
            fields |-> NoFields]
Obj(r, f) == [t |-> "object", s |-> "", n |-> 0, ref |-> r, fields |-> f]
Undefined == [t |-> "undefined", s |-> "", n |-> 0, ref |-> 0, fields |-> NoFields]

\* this[ prop ]: undefined for a property the object does not have
Get(obj, prop) == IF prop \in DOMAIN obj THEN obj[prop] ELSE Undefined

\* faulty variant: reference equality (===) instead of deep equality
isEqual_Strict(a, b) == a = b

\* lodash isEqual: deep comparison, the identity of an object plays no part
isEqual(a, b) ==
    /\ a.t = b.t
    /\ a.s = b.s
    /\ a.n = b.n
    /\ a.fields = b.fields

(* Computed attributes (./computed-attributes): derived from the raw       *)
(* attributes; the title of a site is its name, or a default without one.  *)
ComputedNames == {"title"}
DefaultTitle == Str("Site Title")

getAttributes(obj) ==
    [p \in ComputedNames |->
        IF "name" \in DOMAIN obj /\ obj.name.t = "string" THEN obj.name ELSE DefaultTitle]

\* Object.assign( target, source )
ObjectAssign(target, source) ==
    [p \in DOMAIN target \cup DOMAIN source |->
        IF p \in DOMAIN source THEN source[p] ELSE target[p]]

updateComputedAttributes(obj) == ObjectAssign(obj, getAttributes(obj))

\* Site.prototype.attributes: the constructor's copy of the given attributes
attributes(attrs) == updateComputedAttributes(ObjectAssign(NoFields, attrs))

\* Emitter: emit( 'change' ) runs every listener before it returns
emit(nListeners) == <<"emit">> \o [i \in 1..nListeners |-> "listener"]

\* faulty variant: every property of attributes counts as different
changedProps_EveryKey(obj, attrs) == DOMAIN attrs

\* the properties of attributes that the loop of set finds different
changedProps(obj, attrs) ==
    {p \in DOMAIN attrs : ~isEqual(attrs[p], Get(obj, p))}

\* faulty variant: a changed property is always assigned, undefined included
setLoop_StoreUndefined(obj, attrs) ==
    [p \in DOMAIN obj \cup changedProps(obj, attrs) |->
        IF p \in changedProps(obj, attrs) THEN attrs[p] ELSE obj[p]]

\* the loop of set: a changed property is deleted when the new value is
\* undefined and assigned otherwise (the properties are distinct, so the
\* order of the iterations does not show)
setLoop(obj, attrs) ==
    LET deleted == {p \in changedProps(obj, attrs) : attrs[p] = Undefined}
        written == changedProps(obj, attrs) \ deleted
    IN  [p \in (DOMAIN obj \ deleted) \cup written |->
            IF p \in written THEN attrs[p] ELSE obj[p]]

\* faulty variant: the event is emitted inside the loop, once per changed property
set_EmitPerProperty(obj, attrs, nListeners) ==
    LET RECURSIVE Emits(_)
        Emits(k) == IF k = 0 THEN <<>> ELSE emit(nListeners) \o Emits(k - 1)
        changed == changedProps(obj, attrs) # {}
    IN  [site |-> updateComputedAttributes(setLoop(obj, attrs)),
         log |-> Emits(Cardinality(changedProps(obj, attrs))) \o <<"return">>,
         returned |-> changed]

\* Site.prototype.set: the object after the call, what happened during the
\* call in order, and the value returned
set(obj, attrs, nListeners) ==
    LET changed == changedProps(obj, attrs) # {}
    IN  [site |-> updateComputedAttributes(setLoop(obj, attrs)),
         log |-> (IF changed THEN emit(nListeners) ELSE <<>>) \o <<"return">>,
         returned |-> changed]

(* Inputs *)
Settings1 == Obj(1, [blogname |-> Str("Foo")])
Settings2 == Obj(2, [blogname |-> Str("Foo")])     \* equal to Settings1, distinct
Settings3 == Obj(3, [blogname |-> Str("Bar")])

AttributeValues(p) ==
    CASE p = "name" -> {Str("Foo"), Undefined}
      [] p = "settings" -> {Settings1, Settings2, Settings3, Undefined}
      [] p = "title" -> {Str("Custom"), Str("Foo"), Undefined}

AttributeNames == {"name", "settings", "title"}

AllAttributeValues == UNION {AttributeValues(p) : p \in AttributeNames}

\* the records a caller passes to set: any subset of the names
SetInputs ==
    UNION {{a \in [S -> AllAttributeValues] : \A p \in S : a[p] \in AttributeValues(p)}
           : S \in SUBSET AttributeNames}

\* the records a Site is constructed from; the constructor copies every
\* property it is given, one holding undefined included
InitAttributes ==
    {NoFields, [name |-> Str("Foo"), settings |-> Settings1], [name |-> Undefined]}

SiteInit ==
    /\ site \in {attributes(a) : a \in InitAttributes}
    /\ listeners = 0
    /\ setCalls = <<>>

\* two values with the same content, whatever their identities
SameContent(a, b) == [a EXCEPT !.ref = 0] = [b EXCEPT !.ref = 0]

\* two argument records naming the same properties with the same contents
SameAttributes(a, b) ==
    /\ DOMAIN a = DOMAIN b
    /\ \A p \in DOMAIN a : SameContent(a[p], b[p])

\* a call of set; repeats tells whether the call before it was a set with
\* the same attributes
Set(attrs) ==
    LET r == set(site, attrs, listeners)
    IN  /\ site' = r.site
        /\ setCalls' = <<[attributes |-> attrs, before |-> site, after |-> r.site,
                          listeners |-> listeners, log |-> r.log, returned |-> r.returned,
                          repeats |-> /\ setCalls # <<>>
                                      /\ SameAttributes(setCalls[1].attributes, attrs)]>>
        /\ UNCHANGED <<listeners, dispatchVars, routerVars, settingsVars, billingVars>>

\* Emitter: on( 'change', listener )
On ==
    /\ listeners < MaxListeners
    /\ listeners' = listeners + 1
    /\ UNCHANGED <<site, setCalls, dispatchVars, routerVars, settingsVars, billingVars>>

----------------------------------------------------------------------------
(* Site settings: fetchSettings, saveSettings and their responses          *)

NullValue == [null |-> TRUE]        \* null: no error, no data

\* JavaScript truthiness of a value
Truthy(v) ==
    /\ v.t # "undefined"
    /\ ~(v.t = "number" /\ v.n = 0)
    /\ ~(v.t = "string" /\ v.s = "" /\ v.fields = NoFields)
    /\ ~(v.t = "boolean" /\ v.s = "false")

Notice(kind, text, options) == [kind |-> kind, text |-> text, options |-> options]

\* faulty variant: the case for 401 lacks its break and runs on into 403
settingsErrorHandler_NoBreak(error, obj) ==
    LET code == IF "statusCode" \in DOMAIN error THEN error.statusCode ELSE -1
        n401 == Notice("error", "You must be logged in to manage site settings.", NoFields)
        n403 == Notice("error", "You are not authorized to manage settings for this site.", NoFields)
    IN  CASE code = 401 -> <<n401, n403>>
          [] code = 403 -> <<n403>>
          [] OTHER -> <<>>

\* settingsErrorHandler: the notices a failed fetch produces
settingsErrorHandler(error, obj) ==
    LET adminURL == IF Truthy(Get(obj, "options"))
                    THEN Get(obj.options.fields, "admin_url")
                    ELSE Str("")
        code == IF "statusCode" \in DOMAIN error THEN error.statusCode ELSE -1
    IN  CASE code = 0 ->
               <<Notice("error", "There was an error retrieving your site settings. Please check your internet connection.", NoFields)>>
          [] code = 400 ->
               <<Notice("error", "There was an error retrieving your site settings.",
                        [button |-> "Make sure your Jetpack is up to date",
                         href |-> <<adminURL, "plugins.php?plugin_status=upgrade">>])>>
          [] code = 401 ->
               <<Notice("error", "You must be logged in to manage site settings.", NoFields)>>
          [] code = 403 ->
               <<Notice("error", "You are not authorized to manage settings for this site.", NoFields)>>
          [] OTHER -> <<>>

\* what an operation on the Site yields: the object after it, the 'change'
\* events and listener runs, the notices, the callback calls, and whether
\* it ended by throwing
Outcome(obj, log, notices, callbacks, thrown) ==
    [site |-> obj, log |-> log, notices |-> notices, callbacks |-> callbacks,
     thrown |-> thrown]

\* Site.prototype.fetchSettings up to the remote call: the address, and the
\* set of fetchingSettings
\* faulty variant: the argument is preferred to the ID of the Site
requestID_ArgumentFirst(obj, siteID) == IF Truthy(siteID) THEN siteID ELSE Get(obj, "ID")

requestID(obj, siteID) == IF Truthy(Get(obj, "ID")) THEN obj.ID ELSE siteID

\* faulty variant: the request is issued without fetchingSettings being set
fetchSettings_RequestOnly(obj, nListeners) == Outcome(obj, <<>>, <<>>, <<>>, FALSE)

fetchSettings(obj, nListeners) ==
    LET r == set(obj, [fetchingSettings |-> Bool(TRUE)], nListeners)
    IN  Outcome(r.site, r.log, <<>>, <<>>, FALSE)

\* faulty variant: a failed fetch clears the fetching flag
fetchSettingsResponse_ClearOnError(obj, error, data, now, nListeners) ==
    IF error # NullValue
    THEN LET r == set(obj, [fetchingSettings |-> Bool(FALSE)], nListeners)
         IN  Outcome(r.site, r.log, settingsErrorHandler(error, obj), <<>>, FALSE)
    ELSE LET stamped == ObjectAssign(data, [latestSettings |-> Num(now),
                                            fetchingSettings |-> Bool(FALSE)])
             r == set(obj, stamped, nListeners)
         IN  Outcome(r.site, r.log, <<>>, <<>>, FALSE)

\* faulty variant: a response only fills in the attributes the Site lacks
fetchSettingsResponse_KeepExisting(obj, error, data, now, nListeners) ==
    IF error # NullValue
    THEN Outcome(obj, <<>>, settingsErrorHandler(error, obj), <<>>, FALSE)
    ELSE LET stamped == ObjectAssign(data, [latestSettings |-> Num(now),
                                            fetchingSettings |-> Bool(FALSE)])
             r == set(obj, [p \in DOMAIN stamped \ (DOMAIN obj \ {"fetchingSettings"})
                              |-> stamped[p]], nListeners)
         IN  Outcome(r.site, r.log, <<>>, <<>>, FALSE)

\* the callback fetchSettings hands to wpcom.undocumented().settings
fetchSettingsResponse(obj, error, data, now, nListeners) ==
    IF error # NullValue
    THEN Outcome(obj, <<>>, settingsErrorHandler(error, obj), <<>>, FALSE)
    ELSE LET stamped == ObjectAssign(data, [latestSettings |-> Num(now),
                                            fetchingSettings |-> Bool(FALSE)])
             r == set(obj, stamped, nListeners)
         IN  Outcome(r.site, r.log, <<>>, <<>>, FALSE)

\* String.prototype.split( "\n" ): a string of several lines is held as its
\* lines, a string of one line as its text
split(v) ==
    [t |-> "array", s |-> "", n |-> 0, ref |-> 0,
     fields |-> IF v.fields = NoFields THEN <<Str(v.s)>>
                ELSE [i \in DOMAIN v.fields |-> Str(v.fields[i])]]

omit(rec, key) == [k \in DOMAIN rec \ {key} |-> rec[k]]

\* Site.prototype.saveSettings up to the remote call: the settings sent
sentSettings(newSettings) ==
    IF "whitelistString" \in DOMAIN newSettings /\ newSettings.whitelistString.t = "string"
    THEN omit(ObjectAssign(newSettings,
                  [jetpack_protect_whitelist |-> split(newSettings.whitelistString)]),
              "whitelistString")
    ELSE newSettings

\* reflectSavedSettings: settings is this.settings itself, so the loop
\* writes the saved keys into the object the Site holds; with no settings
\* object the first write throws a TypeError
reflectSavedSettings(obj, newSettings, savedSettings, nListeners) ==
    IF DOMAIN savedSettings # {} /\ Get(obj, "settings").t # "object"
    THEN Outcome(obj, <<>>, <<>>, <<>>, TRUE)
    ELSE LET written ==
                 IF DOMAIN savedSettings = {} THEN obj
                 ELSE [obj EXCEPT !.settings.fields = ObjectAssign(@, savedSettings)]
             renamed ==
                 [p \in {q \in {"name", "description"} :
                            (q = "name" /\ "blogname" \in DOMAIN savedSettings)
                            \/ (q = "description" /\ "blogdescription" \in DOMAIN savedSettings)}
                    |-> IF p = "name" THEN Get(newSettings, "blogname")
                        ELSE Get(newSettings, "blogdescription")]
             updatedAttributes ==
                 ObjectAssign([settings |-> Get(written, "settings")], renamed)
             r == set(written, updatedAttributes, nListeners)
         IN  Outcome(r.site, r.log, <<>>, <<>>, FALSE)

\* faulty variant: a failed save is reported like a failed fetch
saveSettingsResponse_NoticeOnError(obj, newSettings, error, data, nListeners) ==
    IF error = NullValue /\ "updated" \in DOMAIN data
    THEN LET r == reflectSavedSettings(obj, newSettings, data.updated, nListeners)
         IN  IF r.thrown THEN r
             ELSE Outcome(r.site, r.log, <<>>, <<[error |-> error, data |-> data]>>, FALSE)
    ELSE Outcome(obj, <<>>,
                 IF error = NullValue THEN <<>> ELSE settingsErrorHandler(error, obj),
                 <<[error |-> error, data |-> data]>>, FALSE)

\* the callback saveSettings hands to wpcom.undocumented().settings
saveSettingsResponse(obj, newSettings, error, data, nListeners) ==
    IF error = NullValue /\ "updated" \in DOMAIN data
    THEN LET r == reflectSavedSettings(obj, newSettings, data.updated, nListeners)
         IN  IF r.thrown THEN r
             ELSE Outcome(r.site, r.log, <<>>, <<[error |-> error, data |-> data]>>, FALSE)
    ELSE Outcome(obj, <<>>, <<>>, <<[error |-> error, data |-> data]>>, FALSE)

(* Inputs *)
FallbackIDs == {Num(9)}

FetchErrors ==
    {[statusCode |-> c] : c \in {0, 400, 401, 403, 500}} \cup {[message |-> "timeout"]}

FetchData ==
    {[name |-> Str("Foo"), settings |-> Obj(5, [blogname |-> Str("Foo")])],
     [name |-> Str("Bar"), settings |-> Obj(6, [blogname |-> Str("Bar")])],
     [ID |-> Num(7), description |-> Str("A site")]}

FetchResponses ==
    {[error |-> e, data |-> NullValue] : e \in FetchErrors}
    \cup {[error |-> NullValue, data |-> d] : d \in FetchData}

NewSettingsInputs ==
    {[blogname |-> Str("New"), blogdescription |-> Str("New desc")],
     [lang_id |-> Str("en")],
     [whitelistString |-> [t |-> "string", s |-> "", n |-> 0, ref |-> 0,
                           fields |-> <<"1.1.1.1", "2.2.2.2">>]]}

SaveErrors == {[statusCode |-> 403]}

\* what the server reports as updated for the settings sent: nothing, the
\* settings as sent, or the settings with the values it stored instead
Sanitized(sent) == [k \in DOMAIN sent |-> Str("sanitized")]

SaveData(sent) ==
    {NoFields, [updated |-> NoFields], [updated |-> sent], [updated |-> Sanitized(sent)]}

SaveResponses(sent) ==
    {[error |-> e, data |-> NullValue] : e \in SaveErrors}
    \cup {[error |-> NullValue, data |-> d] : d \in SaveData(sent)}

SettingsInitAttributes ==
    {NoFields,
     [ID |-> Num(7), name |-> Str("Foo"), settings |-> Settings1,
      options |-> Obj(4, [admin_url |-> Str("https://foo.example/wp-admin/")])]}

SettingsIdle ==
    /\ requests = {}
    /\ issued = 0
    /\ clock = 0
    /\ lastOp = <<>>

SettingsInit ==
    /\ site \in {attributes(a) : a \in SettingsInitAttributes}
    /\ listeners = 1
    /\ setCalls = <<>>
    /\ SettingsIdle

\* a request in flight: what the call was given, where and what it sent,
\* when; answered holds the requests whose successful responses were
\* handled while this one was in flight
Request(kind, arg, address, sent) ==
    [id |-> issued + 1, kind |-> kind, arg |-> arg, address |-> address, sent |-> sent,
     issuedAt |-> clock, answered |-> {}]

\* the requests left in flight once the response to req has been handled
Answered(req, applied) ==
    IF applied
    THEN {[q EXCEPT !.answered = @ \cup {[id |-> req.id, kind |-> req.kind]}]
            : q \in requests \ {req}}
    ELSE requests \ {req}

Op(op, req, response, r) ==
    <<[op |-> op, req |-> req, response |-> response, before |-> site,
       log |-> r.log, notices |-> r.notices, callbacks |-> r.callbacks,
       thrown |-> r.thrown, inFlightBefore |-> {q.id : q \in requests},
       now |-> clock]>>

NoResponse == [error |-> NullValue, data |-> NullValue]

\* site.fetchSettings( siteID )
FetchSettings(siteID) ==
    LET r == fetchSettings(site, listeners)
        req == Request("fetch", siteID, requestID(site, siteID), NoFields)
    IN  /\ issued < MaxRequests
        /\ site' = r.site
        /\ requests' = requests \cup {req}
        /\ issued' = issued + 1
        /\ lastOp' = Op("fetchSettings", req, NoResponse, r)
        /\ UNCHANGED <<clock, listeners, setCalls, dispatchVars, routerVars, billingVars>>

\* the response to a fetch arrives
FetchSettingsResponse(req, response) ==
    LET r == fetchSettingsResponse(site, response.error, response.data, clock, listeners)
    IN  /\ req \in requests /\ req.kind = "fetch"
        /\ site' = r.site
        /\ requests' = Answered(req, response.error = NullValue)
        /\ lastOp' = Op("fetchSettingsResponse", req, response, r)
        /\ UNCHANGED <<issued, clock, listeners, setCalls, dispatchVars, routerVars, billingVars>>

\* site.saveSettings( newSettings, callback )
SaveSettings(newSettings) ==
    LET req == Request("save", newSettings, Get(site, "ID"), sentSettings(newSettings))
    IN  /\ issued < MaxRequests
        /\ requests' = requests \cup {req}
        /\ issued' = issued + 1
        /\ lastOp' = Op("saveSettings", req, NoResponse, Outcome(site, <<>>, <<>>, <<>>, FALSE))
        /\ UNCHANGED <<site, clock, listeners, setCalls, dispatchVars, routerVars, billingVars>>

\* the response to a save arrives
SaveSettingsResponse(req, response) ==
    LET r == saveSettingsResponse(site, req.sent, response.error, response.data, listeners)
    IN  /\ req \in requests /\ req.kind = "save"
        /\ site' = r.site
        /\ requests' = Answered(req, response.error = NullValue /\ ~r.thrown)
        /\ lastOp' = Op("saveSettingsResponse", req, response, r)
        /\ UNCHANGED <<issued, clock, listeners, setCalls, dispatchVars, routerVars, billingVars>>

\* time passes
Tick ==
    /\ clock < MaxTime
    /\ clock' = clock + 1
    /\ UNCHANGED <<requests, issued, lastOp, siteVars, dispatchVars, routerVars, billingVars>>

----------------------------------------------------------------------------
(* BillingHistoryTable: the receipts being emailed *)

ReceiptIds == 1..MaxReceipts

\* lodash includes and without, on a list
includes(list, value) == \E i \in DOMAIN list : list[i] = value

without(list, value) == SelectSeq(list, LAMBDA x : x # value)

getInitialState == [receiptsEmailing |-> <<>>]

\* what renderEmailAction shows for a receipt: the 'Email Receipt' link, whose
\* click calls emailReceipt, or the text 'Emailing Receipt...'
renderEmailAction(st, receiptId) ==
    IF includes(st.receiptsEmailing, receiptId) THEN "Emailing Receipt" ELSE "Email Receipt"

\* emailReceipt up to the remote call
emailReceipt(st, receiptId) ==
    [st EXCEPT !.receiptsEmailing = Append(@, receiptId)]

\* data && data.success
ReportsSuccess(data) ==
    /\ data # NullValue
    /\ "success" \in DOMAIN data
    /\ data.success

\* faulty variant: an error notice is sent whenever an error came, and a
\* success notice whenever the data report success
emailReceiptResponse_NoticePerArgument(st, receiptId, error, data) ==
    [state |-> [st EXCEPT !.receiptsEmailing = without(@, receiptId)],
     notices |-> (IF ReportsSuccess(data) THEN <<"success">> ELSE <<>>)
                 \o (IF error # NullValue THEN <<"error">> ELSE <<>>)]

\* the callback emailReceipt gives to billingHistoryEmailReceipt
emailReceiptResponse(st, receiptId, error, data) ==
    [state |-> [st EXCEPT !.receiptsEmailing = without(@, receiptId)],
     notices |-> IF ReportsSuccess(data) THEN <<"success">> ELSE <<"error">>]

\* the answers of the remote call
ReceiptResponses ==
    {[error |-> NullValue, data |-> [success |-> TRUE]],
     [error |-> NullValue, data |-> [success |-> FALSE]],
     [error |-> NullValue, data |-> [message |-> "queued"]],
     [error |-> [statusCode |-> 500], data |-> NullValue]}

BillingInit ==
    /\ state = getInitialState
    /\ receiptRequests = {}
    /\ emailed = 0
    /\ lastReceiptOp = <<>>

\* a click on the 'Email Receipt' link of a receipt
EmailReceipt(receiptId) ==
    /\ emailed < MaxEmails
    /\ renderEmailAction(state, receiptId) = "Email Receipt"
    /\ state' = emailReceipt(state, receiptId)
    /\ receiptRequests' = receiptRequests \cup {[id |-> emailed + 1, receiptId |-> receiptId]}
    /\ emailed' = emailed + 1
    /\ lastReceiptOp' = <<[op |-> "emailReceipt", req |-> [id |-> emailed + 1, receiptId |-> receiptId],
                           response |-> [error |-> NullValue, data |-> NullValue],
                           before |-> state, inFlightBefore |-> receiptRequests,
                           notices |-> <<>>]>>
    /\ UNCHANGED <<dispatchVars, routerVars, siteVars, settingsVars>>

\* the remote call of a request in flight answers
EmailReceiptResponse(req, response) ==
    LET r == emailReceiptResponse(state, req.receiptId, response.error, response.data)
    IN  /\ req \in receiptRequests
        /\ state' = r.state
        /\ receiptRequests' = receiptRequests \ {req}
        /\ lastReceiptOp' = <<[op |-> "emailReceiptResponse", req |-> req,
                               response |-> response,
                               before |-> state, inFlightBefore |-> receiptRequests,
                               notices |-> r.notices]>>
        /\ UNCHANGED <<emailed, dispatchVars, routerVars, siteVars, settingsVars>>

----------------------------------------------------------------------------
vars == <<invoked, calls, routed, routerCalls, site, listeners, setCalls,
          requests, issued, clock, lastOp,
          state, receiptRequests, emailed, lastReceiptOp>>

Init == DispatchInit /\ RouterInit /\ SiteInit /\ SettingsIdle /\ BillingInit

DispatchNext ==
    \E store \in Stores, action \in Envelopes(DispatchTypes), next \in Nexts :
        Dispatch(store, action, next)

SpecDispatch == Init /\ [][DispatchNext]_vars

RouterNext ==
    \E action \in Envelopes(RouterTypes), forwards \in BOOLEAN : Route(action, forwards)

SpecRouter == Init /\ [][RouterNext]_vars

SiteNext ==
    \/ \E attrs \in SetInputs : Set(attrs)
    \/ On

SpecSite == Init /\ [][SiteNext]_vars

SettingsNext ==
    \/ \E siteID \in FallbackIDs : FetchSettings(siteID)
    \/ \E req \in requests, response \in FetchResponses : FetchSettingsResponse(req, response)
    \/ \E newSettings \in NewSettingsInputs : SaveSettings(newSettings)
    \/ \E req \in requests : \E response \in SaveResponses(req.sent) :
          SaveSettingsResponse(req, response)
    \/ Tick

\* the Site of the settings requests, with one 'change' listener
InitSettings == DispatchInit /\ RouterInit /\ SettingsInit /\ BillingInit

SpecSettings == InitSettings /\ [][SettingsNext]_vars

BillingNext ==
    \/ \E receiptId \in ReceiptIds : EmailReceipt(receiptId)
    \/ \E req \in receiptRequests, response \in ReceiptResponses :
          EmailReceiptResponse(req, response)

SpecBilling == Init /\ [][BillingNext]_vars

----------------------------------------------------------------------------
(* Request Dispatcher properties *)

Invocations == 1..Len(invoked)
CallsOf(i) == SelectSeq(calls, LAMBDA c : c.inv = i)
StoreOf(i) == invoked[i][1]
ActionOf(i) == invoked[i][2]
NextOf(i) == invoked[i][3]

\* invocation i made exactly the one call handler(args)
OnlyCall(i, handler, args) ==
    /\ Len(CallsOf(i)) = 1
    /\ CallsOf(i)[1].handler = handler
    /\ CallsOf(i)[1].args = args

C2_ErrorOnlyFailure ==
    \A i \in Invocations :
        HasField(ActionOf(i), "error") =>
            OnlyCall(i, "onFailure",
                     <<StoreOf(i), ActionOf(i), NextOf(i), ActionOf(i).meta.dataLayer.error>>)

C2_Witness ==
    \E i \in Invocations :
        /\ HasField(ActionOf(i), "error")
        /\ HasField(ActionOf(i), "data")
        /\ Len(CallsOf(i)) = 1
        /\ CallsOf(i)[1].handler = "onFailure"

C5_NoMetaOnlyInitiate ==
    \A i \in Invocations :
        ~HasMeta(ActionOf(i)) =>
            OnlyCall(i, "initiate", <<StoreOf(i), ActionOf(i), NextOf(i)>>)

C5_Witness ==
    \E i \in Invocations :
        /\ ~HasMeta(ActionOf(i))
        /\ Len(CallsOf(i)) = 1
        /\ CallsOf(i)[1].handler = "initiate"

----------------------------------------------------------------------------
(* Ingress/Egress Router properties *)

Received == 1..Len(routed)
StageCalls(i, callee) ==
    SelectSeq(routerCalls, LAMBDA c : c.inv = i /\ c.by = "stage" /\ c.callee = callee)
Handled(action) == isHttpIngress(action) \/ isHttpEgress(action)
StageNexts == SelectSeq(routerCalls, LAMBDA c : c.by = "stage" /\ c.callee = "next")

\* C6: the stage itself never calls next for a message that classifies as
\* ingress or egress; every other message it passes to next exactly once,
\* unchanged, and the forwarded messages reach next in the order received.
C6_ForwardOnlyUnhandledInOrder ==
    /\ \A i \in Received :
          IF Handled(routed[i])
          THEN Len(StageCalls(i, "next")) = 0
          ELSE /\ Len(StageCalls(i, "next")) = 1
               /\ StageCalls(i, "next")[1].arg = routed[i]
    /\ [j \in 1..Len(StageNexts) |-> StageNexts[j].arg]
          = SelectSeq(routed, LAMBDA m : ~Handled(m))

C6_Witness ==
    /\ Len(routed) = 2
    /\ isHttpEgress(routed[1]) /\ ~isHttpIngress(routed[1])
    /\ ~Handled(routed[2])
    /\ Len(StageNexts) = 1
    /\ \E j \in 1..Len(routerCalls) : routerCalls[j].by = "handler"

\* C7: per message the router calls at most one of handleIngress and
\* handleEgress: an ingress message (also one carrying data or error) reaches
\* handleIngress once and never handleEgress; a non-ingress message carrying
\* data or error reaches handleEgress once and never handleIngress; any other
\* message (one carrying only progress included) reaches neither.
C7_AtMostOneHandler ==
    \A i \in Received :
        LET nIn == Len(StageCalls(i, "handleIngress"))
            nEg == Len(StageCalls(i, "handleEgress"))
        IN  /\ nIn + nEg <= 1
            /\ isHttpIngress(routed[i]) => (nIn = 1 /\ nEg = 0)
            /\ (~isHttpIngress(routed[i])
                  /\ (HasField(routed[i], "data") \/ HasField(routed[i], "error")))
                 => (nIn = 0 /\ nEg = 1)
            /\ (~isHttpIngress(routed[i])
                  /\ ~HasField(routed[i], "data") /\ ~HasField(routed[i], "error"))
                 => (nIn = 0 /\ nEg = 0)

C7_Witness ==
    /\ Len(routed) = 2
    /\ routed[1].type = WPCOM_HTTP_REQUEST /\ HasField(routed[1], "data")
    /\ Len(StageCalls(1, "handleIngress")) = 1
    /\ routed[2].type # WPCOM_HTTP_REQUEST
    /\ HasMeta(routed[2]) /\ DOMAIN routed[2].meta.dataLayer = {"progress"}
    /\ Len(StageCalls(2, "handleEgress")) = 0

----------------------------------------------------------------------------
(* Site.set properties *)

SetCallIds == 1..Len(setCalls)
Count(log, e) == Len(SelectSeq(log, LAMBDA x : x = e))

\* the call names at least one attribute whose content differs from the
\* content the site held before the call
Differs(c) ==
    \E p \in DOMAIN c.attributes : ~SameContent(c.attributes[p], Get(c.before, p))

\* C8: set emits exactly one 'change' event per call in which at least one
\* named attribute is not deep-equal to its current value, however many
\* changed, and none otherwise; it returns true exactly when it emitted; and
\* every listener has run, once, before set returns.
C8_OneChangeEventPerChangingCall ==
    \A i \in SetCallIds :
        LET c == setCalls[i]
        IN  /\ Count(c.log, "emit") = (IF Differs(c) THEN 1 ELSE 0)
            /\ c.returned = (Count(c.log, "emit") = 1)
            /\ Count(c.log, "listener") = Count(c.log, "emit") * c.listeners
            /\ Count(c.log, "return") = 1
            /\ c.log[Len(c.log)] = "return"

C8_Witness ==
    \E i \in SetCallIds :
        LET c == setCalls[i]
        IN  /\ Cardinality({p \in DOMAIN c.attributes :
                              ~SameContent(c.attributes[p], Get(c.before, p))}) >= 2
            /\ c.listeners = 2
            /\ c.log = <<"emit", "listener", "listener", "return">>
            /\ c.returned

\* the call left the site as it was and reported no change
NoOp(c) ==
    /\ c.after = c.before
    /\ ~c.returned
    /\ Count(c.log, "emit") = 0

\* C9 as stated: for every attribute record A, a set(A) right after a set(A)
\* (the same record or a structurally equal one) leaves every attribute
\* unchanged, emits no 'change' event and returns false.
C9_SetIdempotent ==
    \A i \in SetCallIds : setCalls[i].repeats => NoOp(setCalls[i])

\* C9 amended: for every attribute record A that names no computed
\* attribute, a set(A) right after a set(A) (the same record or a
\* structurally equal one) leaves every attribute unchanged, emits no
\* 'change' event and returns false.
C9_SetIdempotentOnRawAttributes ==
    \A i \in SetCallIds :
        (setCalls[i].repeats /\ DOMAIN setCalls[i].attributes \cap ComputedNames = {})
            => NoOp(setCalls[i])

C9_Witness ==
    \E i \in SetCallIds :
        LET c == setCalls[i]
        IN  /\ c.repeats
            /\ DOMAIN c.attributes = {"name", "settings"}
            /\ c.attributes.settings.t = "object"
            /\ "settings" \in DOMAIN c.before
            /\ c.before.settings.ref # c.attributes.settings.ref
            /\ NoOp(c)

\* the call named attribute p with undefined
NamedUndefined(c, p) == p \in DOMAIN c.attributes /\ c.attributes[p] = Undefined

\* C10 as stated: no attribute named in a set call is stored with the value
\* undefined; set({a: undefined}) when a is present removes the key a and
\* counts as a change with one 'change' event; set({a: undefined}) when a is
\* absent changes nothing and emits no event.
C10_UndefinedRemovesKey ==
    \A i \in SetCallIds :
        LET c == setCalls[i]
        IN  \A p \in DOMAIN c.attributes :
                /\ p \in DOMAIN c.after => c.after[p] # Undefined
                /\ (NamedUndefined(c, p) /\ p \in DOMAIN c.before) =>
                      /\ p \notin DOMAIN c.after
                      /\ c.returned
                      /\ Count(c.log, "emit") = 1
                /\ (NamedUndefined(c, p) /\ p \notin DOMAIN c.before
                      /\ DOMAIN c.attributes = {p}) => NoOp(c)

\* C10 amended: set never stores undefined. A raw (non-computed) attribute
\* that a set call changes is afterwards absent when the new value is
\* undefined and holds the new value otherwise, the call counting as a change
\* with one 'change' event; set({a: undefined}) when a is absent, or holds
\* undefined since construction, changes nothing and emits no event; a
\* computed attribute named with undefined is rederived by the same call and
\* stays present with a defined value, the call counting as a change.
C10_SetNeverStoresUndefined ==
    \A i \in SetCallIds :
        LET c == setCalls[i]
        IN  \A p \in DOMAIN c.attributes :
                /\ (p \notin ComputedNames
                      /\ ~SameContent(c.attributes[p], Get(c.before, p))) =>
                      /\ IF c.attributes[p] = Undefined
                         THEN p \notin DOMAIN c.after
                         ELSE p \in DOMAIN c.after /\ c.after[p] = c.attributes[p]
                      /\ c.returned
                      /\ Count(c.log, "emit") = 1
                /\ (NamedUndefined(c, p) /\ Get(c.before, p) = Undefined
                      /\ DOMAIN c.attributes = {p}) => NoOp(c)
                /\ (NamedUndefined(c, p) /\ p \in ComputedNames) =>
                      /\ p \in DOMAIN c.after
                      /\ c.after[p] # Undefined
                      /\ c.returned

C10_Witness ==
    \E i \in SetCallIds :
        LET c == setCalls[i]
        IN  /\ NamedUndefined(c, "settings")
            /\ "settings" \in DOMAIN c.before
            /\ "settings" \notin DOMAIN c.after
            /\ c.returned

\* attribute p is the same before and after the call: absent both times, or
\* present both times with the same value, the same object where it is one
Kept(c, p) ==
    /\ p \in DOMAIN c.before <=> p \in DOMAIN c.after
    /\ p \in DOMAIN c.before => c.after[p] = c.before[p]

\* the call named attribute p with a value deep-equal to the one it had
NamedEqual(c, p) ==
    p \in DOMAIN c.attributes /\ SameContent(c.attributes[p], Get(c.before, p))

\* every raw attribute that is not a key of A is left as it was
UnnamedRawKept(c) ==
    \A p \in (DOMAIN c.before \cup DOMAIN c.after) \ (DOMAIN c.attributes \cup ComputedNames) :
        Kept(c, p)

\* C21 as stated: set(A) leaves every raw attribute whose name is not a key
\* of A unchanged, and leaves every attribute named in A with a value
\* deep-equal to the current one holding its previous value; only keys of A
\* that differ are replaced or deleted.
C21_SetChangesOnlyDifferingKeys ==
    \A i \in SetCallIds :
        LET c == setCalls[i]
        IN  /\ UnnamedRawKept(c)
            /\ \A p \in DOMAIN c.attributes : NamedEqual(c, p) => Kept(c, p)
            /\ \A p \in DOMAIN c.before \cup DOMAIN c.after :
                  ~Kept(c, p) => (p \in DOMAIN c.attributes /\ ~NamedEqual(c, p))

\* C21 amended: set(A) leaves every raw (non-computed) attribute whose name
\* is not a key of A unchanged, and leaves every raw attribute named in A
\* with a value deep-equal to the current one holding its previous value (the
\* object it held is not replaced by the equal one supplied); among the raw
\* attributes only keys of A that differ are replaced or deleted. The
\* computed attributes are rederived from the raw ones at the end of every
\* call, named in A or not.
C21_SetChangesOnlyDifferingRawKeys ==
    \A i \in SetCallIds :
        LET c == setCalls[i]
        IN  /\ UnnamedRawKept(c)
            /\ \A p \in DOMAIN c.attributes \ ComputedNames : NamedEqual(c, p) => Kept(c, p)
            /\ \A p \in (DOMAIN c.before \cup DOMAIN c.after) \ ComputedNames :
                  ~Kept(c, p) => (p \in DOMAIN c.attributes /\ ~NamedEqual(c, p))
            /\ \A p \in ComputedNames :
                  p \in DOMAIN c.after /\ c.after[p] = getAttributes(c.after)[p]

\* set is given only settings equal to, but not the same object as, the ones
\* the Site holds: the Site keeps its own settings object and its name
C21_Witness ==
    \E i \in SetCallIds :
        LET c == setCalls[i]
        IN  /\ DOMAIN c.attributes = {"settings"}
            /\ c.attributes.settings = Settings2
            /\ Get(c.before, "settings") = Settings1
            /\ Get(c.before, "name") = Str("Foo")
            /\ c.after.settings = Settings1
            /\ c.after.name = Str("Foo")
            /\ ~c.returned

----------------------------------------------------------------------------
(* Site settings properties *)

Ops == 1..Len(lastOp)
IsOp(o, op) == o.op = op
Succeeded(o) == o.response.error = NullValue
Flag(obj) == Get(obj, "fetchingSettings")

\* C11: every saveSettings response, whatever its outcome (error, success
\* without an updated record, success with one, also when the Site has no
\* settings at that time), calls the callback exactly once with the
\* (error, data) of the response.
C11_CallbackExactlyOnce ==
    \A i \in Ops :
        IsOp(lastOp[i], "saveSettingsResponse") =>
            lastOp[i].callbacks =
                <<[error |-> lastOp[i].response.error, data |-> lastOp[i].response.data]>>

\* the response of a save that succeeded with an updated record and whose
\* handler ran to its end
Reflected(o) ==
    /\ IsOp(o, "saveSettingsResponse")
    /\ Succeeded(o)
    /\ "updated" \in DOMAIN o.response.data
    /\ ~o.thrown

\* C12: after a successful saveSettings whose response carries an updated
\* record U, settings[k] equals U[k] for every key k of U; the name equals
\* U.blogname when U has blogname and the description equals
\* U.blogdescription when U has blogdescription, also when the server
\* reports a value other than the one sent.
C12_SavedSettingsReflected ==
    \A i \in Ops :
        Reflected(lastOp[i]) =>
            LET U == lastOp[i].response.data.updated
            IN  /\ \A k \in DOMAIN U :
                      /\ Get(site, "settings").t = "object"
                      /\ k \in DOMAIN site.settings.fields
                      /\ site.settings.fields[k] = U[k]
                /\ "blogname" \in DOMAIN U => Get(site, "name") = U.blogname
                /\ "blogdescription" \in DOMAIN U => Get(site, "description") = U.blogdescription

NoticeCodes == {0, 400, 401, 403}

\* C13: a failing fetchSettings produces exactly one error notification when
\* the status code of the error is 0, 400, 401 or 403 (the connectivity,
\* stale-integration with remediation link, authentication and authorization
\* message) and none for any other or missing code; a fetch never produces a
\* success notification.
C13_OneNoticePerKnownStatus ==
    \A i \in Ops :
        LET o == lastOp[i]
            e == o.response.error
            code == IF "statusCode" \in DOMAIN e THEN e.statusCode ELSE -1
        IN  /\ (IsOp(o, "fetchSettingsResponse") /\ ~Succeeded(o)) =>
                  /\ Len(o.notices) = (IF code \in NoticeCodes THEN 1 ELSE 0)
                  /\ \A j \in 1..Len(o.notices) : o.notices[j].kind = "error"
                  /\ code = 0 => o.notices[1].text = "There was an error retrieving your site settings. Please check your internet connection."
                  /\ code = 400 =>
                        /\ o.notices[1].text = "There was an error retrieving your site settings."
                        /\ DOMAIN o.notices[1].options = {"button", "href"}
                        /\ o.notices[1].options.href[2] = "plugins.php?plugin_status=upgrade"
                  /\ code = 401 => o.notices[1].text = "You must be logged in to manage site settings."
                  /\ code = 403 => o.notices[1].text = "You are not authorized to manage settings for this site."
            /\ (IsOp(o, "fetchSettings") \/ (IsOp(o, "fetchSettingsResponse") /\ Succeeded(o))) =>
                  o.notices = <<>>

C13_Witness ==
    \E i \in Ops :
        /\ IsOp(lastOp[i], "fetchSettingsResponse")
        /\ lastOp[i].response.error = [statusCode |-> 400]
        /\ Len(lastOp[i].notices) = 1
        /\ lastOp[i].notices[1].options.href[1] = Str("https://foo.example/wp-admin/")

\* a fetch has succeeded since the request was issued
FetchSucceededSince(q) == \E a \in q.answered : a.kind = "fetch"

FailedFetch(o) == IsOp(o, "fetchSettingsResponse") /\ ~Succeeded(o)
SucceededFetch(o) == IsOp(o, "fetchSettingsResponse") /\ Succeeded(o)
InFlight == {q.id : q \in requests}

\* C14 as stated: a failing fetchSettings response changes no attribute and
\* emits no 'change' event; fetchingSettings keeps the value true it was
\* given when the fetch was issued, latestSettings is not stamped and no
\* request is issued as a retry.
C14_FailedFetchLeavesFlagTrue ==
    \A i \in Ops :
        FailedFetch(lastOp[i]) =>
            /\ site = lastOp[i].before
            /\ Count(lastOp[i].log, "emit") = 0
            /\ Flag(site) = Bool(TRUE)
            /\ InFlight = lastOp[i].inFlightBefore \ {lastOp[i].req.id}

\* C14 amended: a failing fetchSettings response changes no attribute and
\* emits no 'change' event: fetchingSettings keeps the value it had when the
\* response arrived, which is true unless another fetchSettings has
\* succeeded since this one was issued; latestSettings is not stamped and no
\* request is issued as a retry; and while fetchingSettings is true it stays
\* true through every operation but a successful fetch response.
C14_FailedFetchChangesNothing ==
    \A i \in Ops :
        LET o == lastOp[i]
        IN  /\ FailedFetch(o) =>
                  /\ site = o.before
                  /\ Count(o.log, "emit") = 0
                  /\ ~FetchSucceededSince(o.req) => Flag(site) = Bool(TRUE)
                  /\ InFlight = o.inFlightBefore \ {o.req.id}
            /\ (~SucceededFetch(o) /\ Flag(o.before) = Bool(TRUE)) => Flag(site) = Bool(TRUE)

C14_Witness ==
    \E i \in Ops :
        /\ FailedFetch(lastOp[i])
        /\ lastOp[i].response.error = [statusCode |-> 403]
        /\ Len(lastOp[i].notices) = 1
        /\ Flag(site) = Bool(TRUE)
        /\ "latestSettings" \notin DOMAIN site
        /\ requests = {}

\* C15: a successful saveSettings whose updated record changes the value of
\* at least one key of the settings of the Site emits a 'change' event, also
\* when neither blogname nor blogdescription is among the updated keys.
C15_SavedSettingsEmitChange ==
    \A i \in Ops :
        (/\ Reflected(lastOp[i])
         /\ Get(lastOp[i].before, "settings").fields # Get(site, "settings").fields)
            => Count(lastOp[i].log, "emit") >= 1

\* the response of a request that succeeded, handled to its end, after the
\* successful response of a request that overlapped it
AppliedLast(o) ==
    /\ IsOp(o, "fetchSettingsResponse") \/ IsOp(o, "saveSettingsResponse")
    /\ Succeeded(o)
    /\ ~o.thrown
    /\ o.req.answered # {}

\* C16: when two fetchSettings, or a fetchSettings and a saveSettings,
\* overlap and both succeed, the responses arrive in either order and every
\* attribute of the response delivered last (so every attribute present in
\* both) ends with the value of that response, whichever request was issued
\* first; a request in flight does not keep a second from being issued.
C16_LastResponseWins ==
    /\ \A i \in Ops :
          LET o == lastOp[i]
          IN  /\ (AppliedLast(o) /\ o.req.kind = "fetch") =>
                    \A p \in DOMAIN o.response.data :
                        p \in DOMAIN site /\ SameContent(site[p], o.response.data[p])
              /\ (AppliedLast(o) /\ o.req.kind = "save"
                    /\ "updated" \in DOMAIN o.response.data) =>
                    \A k \in DOMAIN o.response.data.updated :
                        site.settings.fields[k] = o.response.data.updated[k]
    /\ (requests # {} /\ issued < MaxRequests) =>
          /\ ENABLED (\E siteID \in FallbackIDs : FetchSettings(siteID))
          /\ ENABLED (\E newSettings \in NewSettingsInputs : SaveSettings(newSettings))

\* the fetch issued first is answered last, after the fetch issued second,
\* and its values replace those of the other response
C16_Witness ==
    \E i \in Ops :
        /\ AppliedLast(lastOp[i])
        /\ lastOp[i].req.kind = "fetch"
        /\ lastOp[i].req.id = 1
        /\ lastOp[i].req.answered = {[id |-> 2, kind |-> "fetch"]}
        /\ Get(lastOp[i].before, "name") = Str("Foo")
        /\ lastOp[i].before.settings.fields.blogname = Str("Foo")
        /\ lastOp[i].response.data.name = Str("Bar")
        /\ site.name = Str("Bar")
        /\ site.settings.fields.blogname = Str("Bar")

\* C17: after a successful fetchSettings response every field of the
\* response is a top-level attribute with the value of the response (the
\* fetch nests nothing under settings), fetchingSettings is false and
\* latestSettings is a time not before the fetch was issued; the request was
\* addressed to the ID of the Site when it has one, to the fallback otherwise.
C17_FetchedFieldsTopLevel ==
    \A i \in Ops :
        LET o == lastOp[i]
        IN  /\ SucceededFetch(o) =>
                  /\ \A p \in DOMAIN o.response.data :
                        p \in DOMAIN site /\ SameContent(site[p], o.response.data[p])
                  /\ "settings" \notin DOMAIN o.response.data =>
                        Get(site, "settings") = Get(o.before, "settings")
                  /\ Flag(site) = Bool(FALSE)
                  /\ Get(site, "latestSettings").t = "number"
                  /\ site.latestSettings.n >= o.req.issuedAt
                  /\ site.latestSettings.n = o.now
            /\ IsOp(o, "fetchSettings") =>
                  o.req.address = (IF "ID" \in DOMAIN o.before THEN o.before.ID ELSE o.req.arg)

C17_Witness ==
    \E i \in Ops :
        /\ SucceededFetch(lastOp[i])
        /\ "ID" \notin DOMAIN lastOp[i].before
        /\ lastOp[i].req.address = Num(9)
        /\ lastOp[i].req.issuedAt = 0
        /\ site.latestSettings = Num(1)
        /\ site.name = Str("Foo")
        /\ Get(lastOp[i].before, "name") = Undefined

\* C18: a failing saveSettings response hands the raw error to the callback
\* and does nothing else: no attribute changes, no 'change' event, no notice;
\* nor does the saveSettings call itself change an attribute.
C18_FailedSaveOnlyCallsBack ==
    \A i \in Ops :
        LET o == lastOp[i]
        IN  /\ (IsOp(o, "saveSettingsResponse") /\ ~Succeeded(o)) =>
                  /\ o.callbacks = <<[error |-> o.response.error, data |-> o.response.data]>>
                  /\ site = o.before
                  /\ Count(o.log, "emit") = 0
                  /\ o.notices = <<>>
                  /\ ~o.thrown
            /\ IsOp(o, "saveSettings") =>
                  /\ site = o.before
                  /\ Count(o.log, "emit") = 0
                  /\ o.notices = <<>>
                  /\ o.callbacks = <<>>

C18_Witness ==
    \E i \in Ops :
        /\ IsOp(lastOp[i], "saveSettingsResponse")
        /\ lastOp[i].response.error = [statusCode |-> 403]
        /\ Len(lastOp[i].callbacks) = 1
        /\ site = lastOp[i].before
        /\ "settings" \in DOMAIN site

\* C19 as stated: fetchingSettings is true whenever at least one
\* fetchSettings request has been issued and has not received its response,
\* also when several overlap and one of them has succeeded.
C19_FlagWhileAnyFetchInFlight ==
    (\E q \in requests : q.kind = "fetch") => Flag(site) = Bool(TRUE)

\* C19 amended: fetchingSettings is true whenever at least one fetchSettings
\* request is in flight and no fetchSettings response has succeeded since
\* that request was issued; when requests overlap, the first successful
\* response sets it to false while the others are still in flight.
C19_FlagUntilAFetchSucceeds ==
    /\ (\E q \in requests : q.kind = "fetch" /\ ~FetchSucceededSince(q)) => Flag(site) = Bool(TRUE)
    /\ \A i \in Ops : SucceededFetch(lastOp[i]) => Flag(site) = Bool(FALSE)

C19_Witness ==
    /\ \E q \in requests : q.kind = "fetch" /\ FetchSucceededSince(q)
    /\ \E i \in Ops : SucceededFetch(lastOp[i])
    /\ Flag(site) = Bool(FALSE)

-----------------------------------------------------------------------------
(* BillingHistoryTable properties *)

ReceiptOps == DOMAIN lastReceiptOp

\* the receipt ids of the requests in flight
Emailing(reqs) == {q.receiptId : q \in reqs}

\* the receipt ids in a list
Listed(list) == {list[i] : i \in DOMAIN list}

\* C20: in any interleaving of emailReceipt calls and responses, a receipt id
\* is in receiptsEmailing from the call of emailReceipt for it until its
\* response arrives; each response produces exactly one notice, success when
\* the data report success and error otherwise; a response removes its own
\* receipt id only and leaves those of the other receipts in flight; and when
\* every response has arrived receiptsEmailing is empty.
C20_ReceiptsEmailingTracksRequests ==
    /\ \A q \in receiptRequests : includes(state.receiptsEmailing, q.receiptId)
    /\ receiptRequests = {} => state.receiptsEmailing = <<>>
    /\ \A i \in ReceiptOps :
          LET o == lastReceiptOp[i]
          IN  /\ o.op = "emailReceipt" =>
                    /\ includes(state.receiptsEmailing, o.req.receiptId)
                    /\ o.notices = <<>>
              /\ o.op = "emailReceiptResponse" =>
                    /\ Len(o.notices) = 1
                    /\ o.notices[1] =
                          (IF o.response.data = [success |-> TRUE] THEN "success" ELSE "error")
                    /\ ~includes(state.receiptsEmailing, o.req.receiptId)
                    /\ Listed(state.receiptsEmailing)
                          = Listed(o.before.receiptsEmailing) \ {o.req.receiptId}
                    /\ Listed(state.receiptsEmailing)
                          = Emailing(o.inFlightBefore \ {o.req})

\* the response for one receipt arrives with an error while two other
\* receipts are being emailed; both stay in the list
C20_Witness ==
    \E i \in ReceiptOps :
        /\ lastReceiptOp[i].op = "emailReceiptResponse"
        /\ lastReceiptOp[i].req.receiptId = 2
        /\ lastReceiptOp[i].response.error # NullValue
        /\ lastReceiptOp[i].before.receiptsEmailing = <<1, 2, 3>>
        /\ lastReceiptOp[i].notices = <<"error">>
        /\ state.receiptsEmailing = <<1, 3>>
        /\ Emailing(receiptRequests) = {1, 3}

====
